---- MODULE Spec2Model ----
(***************************************************************************)
(* A model of identity/web.py: the Auth facade, which keeps three entries *)
(* in a web session (token cache, in-flight auth flow, logged-in user),   *)
(* and the validator chain (Validator, LifespanValidator).                *)
(*                                                                         *)
(* Python values are written as follows.  A dict is a function from its   *)
(* keys; an optional argument is <<>> for None and <<v>> for the value v; *)
(* what a call gives back is a record [ret |-> ...] for a returned value  *)
(* and [raise |-> ...] for an exception that reaches the caller.          *)
(***************************************************************************)
EXTENDS Integers, Sequences, FiniteSets, TLC

VARIABLES
    session,      \* self._session: the dict of the surrounding framework
    validators,   \* self._validators
    authority,    \* self._authority
    now,          \* time.time()
    call,         \* the operation that ran last, its inputs and its outcome
    history       \* "never": no complete_log_in has stored claims yet;
                  \* "logged_in": one has, and no log_out came after it;
                  \* "logged_out": the last of them was followed by a log_out

vars == <<session, validators, authority, now, call, history>>

----------------------------------------------------------------------------
(* Bounds of the model *)

MaxLate == 1           \* the clock takes the values 0 and
                       \* DefaultSkew..DefaultSkew+MaxLate
IdTokenLifetime == 1   \* exp - iat of the ID tokens the provider issues
MaxTokenVer == 1       \* how often the library refreshes the cached tokens

(* LifespanValidator.__init__: self._skew = 210 if skew is None else skew *)
DefaultSkew == 210

----------------------------------------------------------------------------
(* The session keys, and dict operations on the session *)

_TOKEN_CACHE == "_token_cache"
_AUTH_FLOW == "_auth_flow"
_USER == "_logged_in_user"

EmptyDict == [k \in {} |-> 0]

Has(d, key) == key \in DOMAIN d

\* d[key] = value
DictSet(d, key, value) ==
    [k \in DOMAIN d \cup {key} |-> IF k = key THEN value ELSE d[k]]

\* d.pop(key, None), for its effect on d
DictPop(d, key) == [k \in DOMAIN d \ {key} |-> d[k]]

\* Python truth of an optional string or dict argument
Truthy(opt) ==
    /\ opt # <<>>
    /\ opt[1] # ""

----------------------------------------------------------------------------
(* Values *)

Users == {"johndoe", "alice"}

Clock == {0} \cup (DefaultSkew .. DefaultSkew + MaxLate)

\* the claims of an ID token the provider issues at time t for user u
IdTokenClaims(u, t) ==
    [preferred_username |-> u, iat |-> t, exp |-> t + IdTokenLifetime]

RetNone == [ret |-> "None"]
RetClaims(c) == [ret |-> "claims", claims |-> c]

----------------------------------------------------------------------------
(* Validators *)

\* The validator of the docstring of Auth.__init__, a plain callable
OnlyJohnDoe == [type |-> "callable"]

\* LifespanValidator(seconds=..., skew=..., on_error=...)
Lifespan(seconds, skew, on_error) ==
    [type |-> "LifespanValidator", seconds |-> seconds, skew |-> skew,
     on_error |-> on_error]

\* LifespanValidator.__init__: the skew in effect
Skew(v) == IF v.skew = <<>> THEN DefaultSkew ELSE v.skew[1]

\* an is_valid that still accepts at the last second
LifespanIsValid_Inclusive(v, id_token_claims, t) ==
    t <= Skew(v) + (IF v.seconds = <<>>
                    THEN id_token_claims.exp
                    ELSE id_token_claims.iat + v.seconds[1])

\* an is_valid that makes no allowance for clock skew
LifespanIsValid_NoSkew(v, id_token_claims, t) ==
    t < (IF v.seconds = <<>>
         THEN id_token_claims.exp
         ELSE id_token_claims.iat + v.seconds[1])

\* LifespanValidator.is_valid at time t
LifespanIsValid(v, id_token_claims, t) ==
    t < Skew(v) + (IF v.seconds = <<>>
                   THEN id_token_claims.exp
                   ELSE id_token_claims.iat + v.seconds[1])

\* is_valid of a validator; of a plain callable, its result
IsValid(v, id_token_claims, t) ==
    IF v.type = "callable"
    THEN id_token_claims.preferred_username = "johndoe"
    ELSE LifespanIsValid(v, id_token_claims, t)

\* a __call__ that raises whenever an on_error is configured
ValidatorCall_RaiseWhenConfigured(v, id_token_claims, t) ==
    IF v.type # "callable" /\ v.on_error # "None"
    THEN IF v.on_error = "instance"
         THEN [raise |-> "on_error"]
         ELSE [raise |-> "on_error", args |-> id_token_claims]
    ELSE [ret |-> "bool", bool |-> IsValid(v, id_token_claims, t)]

\* Validator.__call__: [ret |-> "bool", bool |-> b], or the raised error
ValidatorCall(v, id_token_claims, t) ==
    LET is_valid == IsValid(v, id_token_claims, t) IN
    IF v.type # "callable" /\ v.on_error # "None" /\ ~is_valid
    THEN IF v.on_error = "instance"
         THEN [raise |-> "on_error"]
         ELSE [raise |-> "on_error", args |-> id_token_claims]
    ELSE [ret |-> "bool", bool |-> is_valid]

\* an all([v(id_token_claims) for v in vs]), which calls every validator
RECURSIVE AllValid_NoShortCircuit(_, _, _, _)
AllValid_NoShortCircuit(vs, id_token_claims, t, i) ==
    IF i > Len(vs) THEN [ret |-> "bool", bool |-> TRUE]
    ELSE LET r == ValidatorCall(vs[i], id_token_claims, t)
             rest == AllValid_NoShortCircuit(vs, id_token_claims, t, i + 1)
         IN IF "raise" \in DOMAIN r THEN r
            ELSE IF "raise" \in DOMAIN rest THEN rest
            ELSE [ret |-> "bool", bool |-> r.bool /\ rest.bool]

\* all(v(id_token_claims) for v in vs), from the i-th validator on:
\* in list order, ending at the first that returns false or raises
RECURSIVE AllValid(_, _, _, _)
AllValid(vs, id_token_claims, t, i) ==
    IF i > Len(vs) THEN [ret |-> "bool", bool |-> TRUE]
    ELSE LET r == ValidatorCall(vs[i], id_token_claims, t) IN
         IF "raise" \in DOMAIN r THEN r
         ELSE IF ~r.bool THEN r
         ELSE AllValid(vs, id_token_claims, t, i + 1)

\* how many validators all(...) calls, from the i-th validator on
RECURSIVE Invoked(_, _, _, _)
Invoked(vs, id_token_claims, t, i) ==
    IF i > Len(vs) THEN 0
    ELSE LET r == ValidatorCall(vs[i], id_token_claims, t) IN
         IF "raise" \in DOMAIN r THEN 1
         ELSE IF ~r.bool THEN 1
         ELSE 1 + Invoked(vs, id_token_claims, t, i + 1)

\* validators of the call that are added to the configured ones
InEffect_Added(per_call, configured) ==
    IF per_call # <<>> THEN per_call[1] \o configured ELSE configured

\* validators or self._validators
InEffect(per_call, configured) ==
    IF per_call # <<>> /\ per_call[1] # <<>> THEN per_call[1] ELSE configured

\* a _get_user that ignores the validators of the call
_get_user_ConfiguredOnly(s, per_call, configured, t) ==
    IF ~Has(s, _USER) THEN RetNone
    ELSE LET r == AllValid(configured, s[_USER], t, 1) IN
         IF "raise" \in DOMAIN r THEN r
         ELSE IF r.bool THEN RetClaims(s[_USER]) ELSE RetNone

\* a _get_user that calls no validator
_get_user_Unvalidated(s, per_call, configured, t) ==
    IF ~Has(s, _USER) THEN RetNone ELSE RetClaims(s[_USER])

\* Auth._get_user: how many validators it calls
_get_user_invoked(s, per_call, configured, t) ==
    IF ~Has(s, _USER) THEN 0
    ELSE Invoked(InEffect(per_call, configured), s[_USER], t, 1)

\* Auth._get_user
_get_user(s, per_call, configured, t) ==
    IF ~Has(s, _USER) THEN RetNone
    ELSE LET r == AllValid(InEffect(per_call, configured), s[_USER], t, 1) IN
         IF "raise" \in DOMAIN r THEN r
         ELSE IF r.bool THEN RetClaims(s[_USER]) ELSE RetNone

----------------------------------------------------------------------------
(* The token cache: msal.SerializableTokenCache as the code uses it.  The  *)
(* cache object lists accounts in the order they were added and carries    *)
(* the generation of its tokens; the session holds its serialized form.    *)

NewCache == [accounts |-> <<>>, ver |-> 0, has_state_changed |-> FALSE]

\* cache.serialize()
Serialize(cache) == <<cache.ver>> \o cache.accounts

\* cache.deserialize(blob), on a new cache
Deserialize(blob) ==
    [accounts |-> Tail(blob), ver |-> Head(blob), has_state_changed |-> FALSE]

\* Auth._load_cache
_load_cache(s) ==
    IF Has(s, _TOKEN_CACHE) THEN Deserialize(s[_TOKEN_CACHE]) ELSE NewCache

\* a _save_cache that writes whatever the library reports
SaveWrites_Always(cache) == TRUE

\* Auth._save_cache: whether it writes the session entry
SaveWrites(cache) == cache.has_state_changed

\* Auth._save_cache
_save_cache(s, cache) ==
    IF SaveWrites(cache) THEN DictSet(s, _TOKEN_CACHE, Serialize(cache)) ELSE s

\* the library adds the tokens of a successful exchange for user u, and
\* an account for u if the provider's response describes one
CacheAdd(cache, u, with_account) ==
    [accounts |-> IF ~with_account
                     \/ \E i \in 1 .. Len(cache.accounts) : cache.accounts[i] = u
                  THEN cache.accounts
                  ELSE Append(cache.accounts, u),
     ver |-> cache.ver,
     has_state_changed |-> TRUE]

\* the library replaces the tokens by refreshed ones
CacheRefresh(cache) ==
    [accounts |-> cache.accounts, ver |-> cache.ver + 1,
     has_state_changed |-> TRUE]

----------------------------------------------------------------------------
(* The identity library's answers, as far as the code reads them *)

FlowStates == {"s1", "s2"}
RedirectUris == {<<>>, <<"">>, <<"https://app.example/auth_redirect">>}
Homepages == {"https://app.example/", "https://app.example/home"}
Authorities == {"https://example.com/foo"}

\* app.initiate_auth_code_flow(_scopes, redirect_uri=redirect_uri); the
\* library keeps the claims_challenge argument (here None) in the flow
AuthCodeFlow(auth, st, redirect_uri) ==
    [state |-> st, redirect_uri |-> redirect_uri,
     auth_uri |-> auth \o "/oauth2/v2.0/authorize?state=" \o st,
     claims_challenge |-> "None"]

\* app.initiate_device_flow(_scopes)
DeviceFlow(auth, st) ==
    [device_code |-> st, user_code |-> "U-" \o st,
     verification_uri |-> auth \o "/devicelogin"]

\* what the provider sends to the redirect_uri, as request.args
AuthResponses ==
    {<<>>, <<EmptyDict>>}
    \cup {<<[state |-> st, code |-> "c"]>> : st \in FlowStates}
    \cup {<<[state |-> st, error |-> "access_denied"]>> : st \in FlowStates}
    \cup {<<[state |-> st]>> : st \in FlowStates}

\* if auth_response:
AuthResponseGiven(auth_response) ==
    /\ auth_response # <<>>
    /\ DOMAIN auth_response[1] # {}

\* self._session.get(self._AUTH_FLOW, {})
StoredFlow(s) == IF Has(s, _AUTH_FLOW) THEN s[_AUTH_FLOW] ELSE EmptyDict

\* dict.get(key), as an optional value
Get(d, key) == IF key \in DOMAIN d THEN <<d[key]>> ELSE <<>>

SuccessResult(u, t) == [id_token_claims |-> IdTokenClaims(u, t)]

\* the successful outcomes of an exchange at time t: the result, and
\* whether the library made an account of it in the cache
Successes(t) ==
    {[result |-> SuccessResult(u, t), account |-> a] :
        u \in Users, a \in BOOLEAN}
ErrorResult(e) == [error |-> e]

\* acquire_token_by_auth_code_flow(flow, auth_response): the set of its
\* outcomes, [raise |-> "ValueError", msg |-> ...] or [result |-> ...].
\* The library works on the dict it is handed: it pops "claims_challenge"
\* from it while it builds its request, before it compares the states, so
\* every outcome carries in its field flow the dict as the call leaves it.
AcquireByAuthCodeFlow(flow, resp, t) ==
    LET left == DictPop(flow, "claims_challenge") IN
    IF Get(flow, "state") # Get(resp, "state")
    THEN {[raise |-> "ValueError", msg |-> "state mismatch", flow |-> left]}
    ELSE IF Has(resp, "code")
    THEN {[result |-> s.result, account |-> s.account, flow |-> left] :
             s \in Successes(t)}
         \cup {[result |-> ErrorResult("invalid_grant"), flow |-> left]}
    ELSE IF Has(resp, "error")
    THEN {[result |-> ErrorResult(resp.error), flow |-> left]}
    ELSE {[raise |-> "ValueError", msg |-> "neither code nor error",
           flow |-> left]}

\* acquire_token_by_device_flow(flow, exit_condition=lambda flow: True).
\* Without a device_code the library raises before it does anything; with
\* one it makes a single attempt and notes its time in the dict it is
\* handed, whatever the provider answers.
AcquireByDeviceFlow(flow, t) ==
    IF ~Has(flow, "device_code")
    THEN {[raise |-> "KeyError", flow |-> flow]}
    ELSE LET left == DictSet(flow, "latest_attempt_at", t) IN
         {[result |-> s.result, account |-> s.account, flow |-> left] :
             s \in Successes(t)}
         \cup {[result |-> ErrorResult("authorization_pending"),
                flow |-> left]}

\* "error" in result
IsError(result) == Has(result, "error")

\* app.acquire_token_silent(scopes, account=accounts[0]): the cache after
\* it and the token it returns (<<>> when it has none to give)
AcquireSilent(cache) ==
    {[cache |-> cache, token |-> <<cache.ver>>],
     [cache |-> cache, token |-> <<>>]}
    \cup (IF cache.ver < MaxTokenVer
          THEN {[cache |-> CacheRefresh(cache), token |-> <<cache.ver + 1>>]}
          ELSE {})

----------------------------------------------------------------------------
(* Configuration *)

LV == Lifespan(<<0>>, <<>>, "None")
LVExp == Lifespan(<<>>, <<>>, "instance")
LVStrict == Lifespan(<<0>>, <<0>>, "class")

ValidatorLists ==
    {<<>>, <<LV>>, <<OnlyJohnDoe>>, <<OnlyJohnDoe, LVExp>>, <<LVStrict>>}

PerCallValidators == {<<>>} \cup {<<vs>> : vs \in ValidatorLists}

----------------------------------------------------------------------------
(* Construction *)

\* Auth.__init__, with an empty session, and the clock at its start
Init ==
    /\ session = EmptyDict
    /\ validators \in ValidatorLists
    /\ authority \in Authorities
    /\ now = 0
    /\ call = [op |-> "__init__"]
    /\ history = "never"

----------------------------------------------------------------------------
(* Operations *)

\* Auth.log_in: the flow the library initiates, with the state it draws
LogInFlow(redirect_uri, st) ==
    IF Truthy(redirect_uri)
    THEN AuthCodeFlow(authority, st, redirect_uri[1])
    ELSE DeviceFlow(authority, st)

\* a log_in that starts from an empty session
LogInSession_Fresh(s, flow) == DictSet(EmptyDict, _AUTH_FLOW, flow)

\* Auth.log_in: the session it leaves
LogInSession(s, flow) == DictSet(s, _AUTH_FLOW, flow)

\* a log_in that returns no user_code
LogInReturn_NoUserCode(s, redirect_uri, flow) ==
    [ret |-> "dict",
     dict |-> [auth_uri |-> IF Truthy(redirect_uri)
                            THEN s[_AUTH_FLOW].auth_uri
                            ELSE flow.verification_uri]]

\* Auth.log_in: what it returns
LogInReturn(s, redirect_uri, flow) ==
    IF Truthy(redirect_uri)
    THEN [ret |-> "dict", dict |-> [auth_uri |-> s[_AUTH_FLOW].auth_uri]]
    ELSE [ret |-> "dict", dict |-> [auth_uri |-> flow.verification_uri,
                                    user_code |-> flow.user_code]]

log_in ==
    \E redirect_uri \in RedirectUris, st \in FlowStates :
        LET flow == LogInFlow(redirect_uri, st)
            s1 == LogInSession(session, flow)
        IN /\ session' = s1
           /\ call' = [op |-> "log_in", redirect_uri |-> redirect_uri,
                       flow |-> flow,
                       out |-> LogInReturn(s1, redirect_uri, flow)]
           /\ UNCHANGED <<validators, authority, now, history>>

\* Auth.complete_log_in, lines 146-160: the outcomes of the exchange
Exchange(s, auth_response, t) ==
    IF AuthResponseGiven(auth_response)
    THEN AcquireByAuthCodeFlow(StoredFlow(s), auth_response[1], t)
    ELSE AcquireByDeviceFlow(StoredFlow(s), t)

\* self._session.get(self._AUTH_FLOW, {}) hands the library the session's
\* own dict (a fresh one when the session has none): the session after
\* the exchange with outcome x
Handed(s, x) == IF Has(s, _AUTH_FLOW) THEN DictSet(s, _AUTH_FLOW, x.flow) ELSE s

\* a complete_log_in that forgets to pop the flow
CommitLogIn_KeepFlow(s, result, cache) ==
    _save_cache(DictSet(s, _USER, result.id_token_claims), cache)

\* Auth.complete_log_in, lines 164-166: the session after a successful exchange
CommitLogIn(s, result, cache) ==
    DictPop(_save_cache(DictSet(s, _USER, result.id_token_claims), cache),
            _AUTH_FLOW)

\* a complete_log_in without the except clause
OnValueError_Reraise(x) == [raise |-> x.raise]

\* Auth.complete_log_in, lines 154-155: except ValueError as e
OnValueError(x) ==
    [ret |-> "dict",
     dict |-> [error |-> "invalid_grant", error_description |-> x.msg]]

\* a complete_log_in that drops the flow when the exchange fails
CompleteLogIn_ClearsFlowOnError(s, auth_response, x, cache, configured, t) ==
    LET s0 == Handed(s, x) IN
    IF Has(x, "raise")
    THEN IF x.raise = "ValueError" /\ AuthResponseGiven(auth_response)
         THEN [session |-> DictPop(s0, _AUTH_FLOW), out |-> OnValueError(x)]
         ELSE [session |-> s0, out |-> [raise |-> x.raise]]
    ELSE IF IsError(x.result)
    THEN [session |-> DictPop(s0, _AUTH_FLOW),
          out |-> [ret |-> "dict", dict |-> x.result]]
    ELSE LET s1 == CommitLogIn(s0, x.result, cache) IN
         [session |-> s1, out |-> _get_user(s1, <<>>, configured, t)]

\* a complete_log_in that validates first and commits only accepted claims
CompleteLogIn_ValidateFirst(s, auth_response, x, cache, configured, t) ==
    LET s0 == Handed(s, x) IN
    IF Has(x, "raise")
    THEN IF x.raise = "ValueError" /\ AuthResponseGiven(auth_response)
         THEN [session |-> s0, out |-> OnValueError(x)]
         ELSE [session |-> s0, out |-> [raise |-> x.raise]]
    ELSE IF IsError(x.result)
    THEN [session |-> s0, out |-> [ret |-> "dict", dict |-> x.result]]
    ELSE LET s1 == CommitLogIn(s0, x.result, cache)
             user == _get_user(s1, <<>>, configured, t)
         IN [session |-> IF user = RetClaims(x.result.id_token_claims)
                         THEN s1 ELSE s0,
             out |-> user]

\* Auth.complete_log_in, from the outcome x of the exchange on:
\* the session it leaves and what it gives back
CompleteLogIn(s, auth_response, x, cache, configured, t) ==
    LET s0 == Handed(s, x) IN
    IF Has(x, "raise")
    THEN IF x.raise = "ValueError" /\ AuthResponseGiven(auth_response)
         THEN [session |-> s0, out |-> OnValueError(x)]
         ELSE [session |-> s0, out |-> [raise |-> x.raise]]
    ELSE IF IsError(x.result)
    THEN [session |-> s0, out |-> [ret |-> "dict", dict |-> x.result]]
    ELSE LET s1 == CommitLogIn(s0, x.result, cache) IN
         [session |-> s1, out |-> _get_user(s1, <<>>, configured, t)]

\* the outcome of the exchange, in a word
Outcome(x) ==
    IF Has(x, "raise") THEN x.raise
    ELSE IF IsError(x.result) THEN "error" ELSE "ok"

complete_log_in ==
    \E auth_response \in AuthResponses :
    \E x \in Exchange(session, auth_response, now) :
        LET loaded == _load_cache(session)
            cache == IF Outcome(x) = "ok"
                     THEN CacheAdd(loaded,
                                   x.result.id_token_claims.preferred_username,
                                   x.account)
                     ELSE loaded
            r == CompleteLogIn(session, auth_response, x, cache, validators, now)
        IN /\ session' = r.session
           /\ call' = [op |-> "complete_log_in",
                       given |-> AuthResponseGiven(auth_response),
                       lib |-> x,
                       cache |-> cache,
                       saved |-> Outcome(x) = "ok" /\ SaveWrites(cache),
                       out |-> r.out]
           /\ history' = IF Outcome(x) = "ok" THEN "logged_in" ELSE history
           /\ UNCHANGED <<validators, authority, now>>

get_user ==
    \E per_call \in PerCallValidators :
        /\ call' = [op |-> "get_user", validators |-> per_call,
                    invoked |-> _get_user_invoked(session, per_call,
                                                  validators, now),
                    out |-> _get_user(session, per_call, validators, now)]
        /\ UNCHANGED <<session, validators, authority, now, history>>

\* a get_token that goes on without a current user
StopsEarly_RaiseOnly(user) == Has(user, "raise")

\* get_token, lines 182-183: it stops here, the validators having raised
\* or not self._get_user(validators=validators)
StopsEarly(user) == IF Has(user, "raise") THEN TRUE ELSE user.ret = "None"

\* Auth.get_token, lines 184-191, with the library's answer x: the session
\* it leaves, what it gives back, and what it did on the way
GetTokenAcquire(s, cache, x) ==
    IF cache.accounts # <<>>
    THEN [session |-> _save_cache(s, x.cache),
          out |-> IF x.token = <<>> THEN RetNone
                  ELSE [ret |-> "token", token |-> x.token[1]],
          asked |-> TRUE,
          cache |-> x.cache,
          saved |-> SaveWrites(x.cache)]
    ELSE [session |-> s, out |-> RetNone, asked |-> FALSE,
          cache |-> cache, saved |-> FALSE]

get_token ==
    \E per_call \in PerCallValidators :
        LET user == _get_user(session, per_call, validators, now) IN
        \/ /\ StopsEarly(user)
           /\ call' = [op |-> "get_token", validators |-> per_call,
                       loaded |-> FALSE, asked |-> FALSE, saved |-> FALSE,
                       out |-> IF Has(user, "raise") THEN user ELSE RetNone]
           /\ UNCHANGED <<session, validators, authority, now, history>>
        \/ /\ ~StopsEarly(user)
           /\ LET cache == _load_cache(session) IN
              \E x \in AcquireSilent(cache) :
                  LET r == GetTokenAcquire(session, cache, x) IN
                  /\ session' = r.session
                  /\ call' = [op |-> "get_token", validators |-> per_call,
                              loaded |-> TRUE, asked |-> r.asked,
                              cache |-> r.cache, saved |-> r.saved,
                              out |-> r.out]
           /\ UNCHANGED <<validators, authority, now, history>>

\* a log_out that forgets the user entry
LogOutSession_KeepUser(s) == DictPop(s, _TOKEN_CACHE)

\* a log_out that forgets the token cache
LogOutSession_KeepCache(s) == DictPop(s, _USER)

\* a log_out that clears the auth flow as well
LogOutSession_DropFlow(s) ==
    DictPop(DictPop(DictPop(s, _USER), _TOKEN_CACHE), _AUTH_FLOW)

\* Auth.log_out: the session it leaves
LogOutSession(s) == DictPop(DictPop(s, _USER), _TOKEN_CACHE)

\* Auth.log_out: the URL it returns
LogOutUrl(auth, homepage) ==
    auth \o "/oauth2/v2.0/logout?post_logout_redirect_uri=" \o homepage

log_out ==
    \E homepage \in Homepages :
        /\ session' = LogOutSession(session)
        /\ call' = [op |-> "log_out", homepage |-> homepage,
                    out |-> [ret |-> "str", str |-> LogOutUrl(authority, homepage)]]
        /\ history' = IF history = "never" THEN "never" ELSE "logged_out"
        /\ UNCHANGED <<validators, authority, now>>

\* time passes between two requests
Tick ==
    /\ \E t \in Clock : t > now /\ now' = t
    /\ call' = [op |-> "tick"]
    /\ UNCHANGED <<session, validators, authority, history>>

Next ==
    \/ log_in
    \/ complete_log_in
    \/ get_user
    \/ get_token
    \/ log_out
    \/ Tick

Spec == Init /\ [][Next]_vars

----------------------------------------------------------------------------
(* The validators on their own: a validator is built, and called on some  *)
(* claims at some time.                                                    *)

MaxSeconds == 2     \* seconds=None or 0..MaxSeconds
MaxSkew == 1        \* skew=None or 0..MaxSkew
MaxIat == 1         \* iat in 0..MaxIat
MaxExp == 2         \* exp in 0..MaxExp
MaxNow == 3         \* time.time() in 0..MaxNow or around DefaultSkew

OptionalUpTo(n) == {<<>>} \cup {<<k>> : k \in 0 .. n}

LifespanValidators ==
    {Lifespan(seconds, skew, on_error) :
        seconds \in OptionalUpTo(MaxSeconds),
        skew \in OptionalUpTo(MaxSkew),
        on_error \in {"None", "instance", "class"}}

SomeClaims ==
    {[preferred_username |-> "johndoe", iat |-> i, exp |-> e] :
        i \in 0 .. MaxIat, e \in 0 .. MaxExp}

Times == (0 .. MaxNow) \cup (DefaultSkew .. DefaultSkew + MaxNow)

InitV ==
    /\ session = EmptyDict
    /\ validators \in {<<v>> : v \in LifespanValidators}
    /\ authority \in Authorities
    /\ now \in Times
    /\ call = [op |-> "__init__"]
    /\ history = "never"

\* validators[1](id_token_claims), at the time now
CallValidator ==
    \E id_token_claims \in SomeClaims :
        /\ call' = [op |-> "__call__", id_token_claims |-> id_token_claims,
                    is_valid |-> IsValid(validators[1], id_token_claims, now),
                    out |-> ValidatorCall(validators[1], id_token_claims, now)]
        /\ UNCHANGED <<session, validators, authority, now, history>>

NextV == CallValidator

SpecV == InitV /\ [][NextV]_vars

----------------------------------------------------------------------------
(* Properties *)

\* the session entry under key, as an optional value
Entry(s, key) == Get(s, key)

\* the exchange of the complete_log_in that ran last gave a result without "error"
ExchangeSucceeded == call.op = "complete_log_in" /\ Outcome(call.lib) = "ok"

\* C1: when complete_log_in gets a result without "error" from the library,
\* in either branch, it leaves the session with that result's
\* id_token_claims as the user entry and without an auth-flow entry.
C1_LoginStoresClaimsAndClearsFlow ==
    ExchangeSucceeded =>
        /\ Entry(session, _USER) = <<call.lib.result.id_token_claims>>
        /\ Entry(session, _AUTH_FLOW) = <<>>

\* C1 happens: a device-code login succeeded in a session whose cache
\* already held the account of another user, logged in before
C1_Witness ==
    /\ ExchangeSucceeded
    /\ ~call.given
    /\ Has(session, _TOKEN_CACHE)
    /\ Len(session[_TOKEN_CACHE]) = 3
    /\ session[_USER].preferred_username = session[_TOKEN_CACHE][3]
    /\ Entry(session, _AUTH_FLOW) = <<>>

\* C2: complete_log_in with a non-empty auth_response returns a dict with
\* error = "invalid_grant" and the description when the library raises
\* ValueError, and returns the library's result as it is when that contains
\* "error"; no exception reaches the caller in these two cases.
C2_InvalidResponseReturnsError ==
    (call.op = "complete_log_in" /\ call.given) =>
        /\ Outcome(call.lib) = "ValueError" =>
              /\ Has(call.out, "ret")
              /\ call.out.ret = "dict"
              /\ call.out.dict.error = "invalid_grant"
              /\ call.out.dict.error_description = call.lib.msg
        /\ Outcome(call.lib) = "error" =>
              /\ Has(call.out, "ret")
              /\ call.out.ret = "dict"
              /\ call.out.dict = call.lib.result

\* C2 happens: the state of the response did not match the stored flow's
C2_Witness ==
    /\ call.op = "complete_log_in"
    /\ call.given
    /\ Outcome(call.lib) = "ValueError"
    /\ Has(session, _AUTH_FLOW)
    /\ Has(call.out, "ret")
    /\ call.out.dict.error = "invalid_grant"

\* C3: as long as no complete_log_in has succeeded, or none has since the
\* last log_out, get_user returns None, with any per-call validator list
\* and any configured one.
C3_NoUserBeforeLoginAndAfterLogout ==
    history # "logged_in" =>
        /\ \A per_call \in PerCallValidators :
              _get_user(session, per_call, validators, now) = RetNone
        /\ call.op = "get_user" => call.out = RetNone

\* C3 happens: get_user ran after a log_out that followed a login, under
\* configured validators
C3_Witness ==
    /\ history = "logged_out"
    /\ validators # <<>>
    /\ call.op = "get_user"
    /\ call.out = RetNone

\* the validators in effect that reject the claims c at time t, by position
Rejecting(vs, c, t) == {i \in 1 .. Len(vs) : ~IsValid(vs[i], c, t)}

\* the least element of a non-empty set of numbers
Least(S) == CHOOSE i \in S : \A j \in S : i <= j

\* the first validator in effect that rejects c was given an on_error
FirstRejectingRaises(vs, c, t) ==
    LET v == vs[Least(Rejecting(vs, c, t))] IN
    v.type # "callable" /\ v.on_error # "None"

\* C4 as stated: get_user returns the stored claims if they are present and
\* every validator in effect accepts them, and None otherwise; it changes
\* no session entry.
C4_Original ==
    [][call'.op = "get_user" =>
          /\ session' = session
          /\ call'.out =
                IF /\ Has(session, _USER)
                   /\ Rejecting(InEffect(call'.validators, validators),
                                session[_USER], now) = {}
                THEN RetClaims(session[_USER])
                ELSE RetNone]_vars

\* C4, amended: get_user returns the stored claims if they are present and
\* every validator in effect accepts them; otherwise it returns None,
\* unless the first validator in list order that rejects them was given an
\* on_error, in which case that error reaches the caller; it changes no
\* session entry.
C4_GetUser ==
    [][call'.op = "get_user" =>
          /\ session' = session
          /\ LET vs == InEffect(call'.validators, validators) IN
             IF ~Has(session, _USER) THEN call'.out = RetNone
             ELSE IF Rejecting(vs, session[_USER], now) = {}
             THEN call'.out = RetClaims(session[_USER])
             ELSE IF FirstRejectingRaises(vs, session[_USER], now)
             THEN Has(call'.out, "raise") /\ call'.out.raise = "on_error"
             ELSE call'.out = RetNone]_vars

\* C4 happens: get_user ran on stored claims that the second validator of
\* the list in effect rejects, with an error to raise
C4_Witness ==
    /\ call.op = "get_user"
    /\ Has(session, _USER)
    /\ Has(call.out, "raise")
    /\ Rejecting(InEffect(call.validators, validators), session[_USER], now) = {2}

\* C5 as stated: with no user claims in the session, or a validator in
\* effect rejecting them, get_token returns None without loading the cache,
\* without asking the library, and without changing a session entry.
C5_Original ==
    [][(/\ call'.op = "get_token"
        /\ \/ ~Has(session, _USER)
           \/ Rejecting(InEffect(call'.validators, validators),
                        session[_USER], now) # {})
       =>
          /\ call'.out = RetNone
          /\ ~call'.loaded
          /\ ~call'.asked
          /\ ~call'.saved
          /\ session' = session]_vars

\* C5, amended: with no user claims in the session, or a validator in
\* effect rejecting them, get_token neither loads the cache nor asks the
\* library nor changes a session entry; it returns None, unless the first
\* validator in list order that rejects the claims was given an on_error,
\* in which case that error reaches the caller.
C5_GetTokenOnlyIfUserValidates ==
    [][(/\ call'.op = "get_token"
        /\ \/ ~Has(session, _USER)
           \/ Rejecting(InEffect(call'.validators, validators),
                        session[_USER], now) # {})
       =>
          /\ IF /\ Has(session, _USER)
                /\ FirstRejectingRaises(InEffect(call'.validators, validators),
                                        session[_USER], now)
             THEN Has(call'.out, "raise") /\ call'.out.raise = "on_error"
             ELSE call'.out = RetNone
          /\ ~call'.loaded
          /\ ~call'.asked
          /\ ~call'.saved
          /\ session' = session]_vars

\* C5 happens: get_token ran in a session with claims, a cache with an
\* account, and a validator that rejects the claims; nothing was loaded
C5_Witness ==
    /\ call.op = "get_token"
    /\ Has(session, _USER)
    /\ Has(session, _TOKEN_CACHE)
    /\ Len(session[_TOKEN_CACHE]) > 1
    /\ Rejecting(InEffect(call.validators, validators), session[_USER], now) # {}
    /\ call.out = RetNone
    /\ ~call.loaded

\* C6: after log_out, in whatever state it was called, the session holds
\* neither user claims nor a token cache, nothing was raised, and the call
\* returned the authority's logout URL with the given homepage as
\* post_logout_redirect_uri.
C6_LogOutClearsSession ==
    call.op = "log_out" =>
        /\ Entry(session, _USER) = <<>>
        /\ Entry(session, _TOKEN_CACHE) = <<>>
        /\ Has(call.out, "ret")
        /\ call.out.str =
              authority \o "/oauth2/v2.0/logout?post_logout_redirect_uri="
                        \o call.homepage

\* C6 happens: log_out ran in a session that was never logged in, the
\* entries it pops being absent already
C6_Witness ==
    /\ call.op = "log_out"
    /\ history = "never"
    /\ Has(session, _AUTH_FLOW)
    /\ Has(call.out, "ret")

\* if redirect_uri: of the log_in that ran last
RedirectGiven == Truthy(call.redirect_uri)

\* C7: after log_in the auth-flow entry of the session is the flow the
\* library has just initiated, an auth-code flow if a redirect_uri was given
\* and a device-code flow if not; the returned auth_uri is that flow's URI,
\* and a user_code is returned exactly in the device-code case.
C7_LogInSetsFlow ==
    call.op = "log_in" =>
        /\ Entry(session, _AUTH_FLOW) = <<call.flow>>
        /\ Has(call.out, "ret")
        /\ Has(call.out.dict, "user_code") <=> ~RedirectGiven
        /\ IF RedirectGiven
           THEN /\ Has(session[_AUTH_FLOW], "state")
                /\ session[_AUTH_FLOW].redirect_uri = call.redirect_uri[1]
                /\ call.out.dict.auth_uri = session[_AUTH_FLOW].auth_uri
           ELSE /\ Has(session[_AUTH_FLOW], "device_code")
                /\ call.out.dict.auth_uri = session[_AUTH_FLOW].verification_uri
                /\ call.out.dict.user_code = session[_AUTH_FLOW].user_code

\* C7 happens: a logged-in user started a device-code flow
C7_Witness ==
    /\ call.op = "log_in"
    /\ ~RedirectGiven
    /\ Has(session, _USER)
    /\ Has(call.out.dict, "user_code")
    /\ session[_AUTH_FLOW].device_code = "s2"

\* C8: with seconds configured, is_valid(claims) is true exactly when
\* now < iat + seconds + skew, skew being 210 when not given; it is false
\* at equality and after, and it is the same for every exp of the claims.
C8_LifespanWithSeconds ==
    (call.op = "__call__" /\ validators[1].seconds # <<>>) =>
        LET v == validators[1]
            c == call.id_token_claims
            skew == IF v.skew = <<>> THEN DefaultSkew ELSE v.skew[1]
        IN /\ call.is_valid <=> now < c.iat + v.seconds[1] + skew
           /\ \A e \in 0 .. MaxExp + DefaultSkew :
                 IsValid(v, [c EXCEPT !.exp = e], now) = call.is_valid

\* C8 happens: a validator with seconds and the default skew was called at
\* the very second the session ends, and rejected claims that have not
\* expired by their exp
C8_Witness ==
    /\ call.op = "__call__"
    /\ validators[1].seconds # <<>>
    /\ validators[1].seconds[1] > 0
    /\ validators[1].skew = <<>>
    /\ now = call.id_token_claims.iat + validators[1].seconds[1] + DefaultSkew
    /\ now < call.id_token_claims.exp + DefaultSkew
    /\ ~call.is_valid

\* C9: the user entry of the session changes only in a complete_log_in
\* whose exchange succeeds, which sets it to the new claims, and in
\* log_out, which removes it.
C9_ClaimsChangeOnlyOnLoginOrLogout ==
    [][Entry(session', _USER) # Entry(session, _USER) =>
          \/ /\ call'.op = "complete_log_in"
             /\ Outcome(call'.lib) = "ok"
             /\ Entry(session', _USER) = <<call'.lib.result.id_token_claims>>
          \/ /\ call'.op = "log_out"
             /\ Entry(session', _USER) = <<>>]_vars

\* C9 happens: a complete_log_in returned an error in a session that holds
\* the claims of an earlier login
C9_Witness ==
    /\ call.op = "complete_log_in"
    /\ Outcome(call.lib) = "error"
    /\ Has(session, _USER)
    /\ session[_USER].iat < now

\* the call that ran last reached _save_cache
ReachedSave ==
    \/ ExchangeSucceeded
    \/ call.op = "get_token" /\ call.asked

\* C10: a complete_log_in whose exchange succeeds, and a get_token that
\* finds an account in the cache, store the serialized cache in the session
\* exactly if has_state_changed is true; log_out removes the entry; nothing
\* else changes it.
C10_CacheRewrittenOnStateChange ==
    [][/\ ReachedSave' =>
             /\ call'.saved <=> call'.cache.has_state_changed
             /\ Entry(session', _TOKEN_CACHE) =
                   IF call'.cache.has_state_changed
                   THEN <<Serialize(call'.cache)>>
                   ELSE Entry(session, _TOKEN_CACHE)
       /\ call'.op = "log_out" => Entry(session', _TOKEN_CACHE) = <<>>
       /\ (~ReachedSave' /\ call'.op # "log_out") =>
             Entry(session', _TOKEN_CACHE) = Entry(session, _TOKEN_CACHE)]_vars

\* C10 happens: get_token got a token the library had in the cache, which
\* it did not change, and the session entry was not written
C10_Witness ==
    /\ call.op = "get_token"
    /\ call.asked
    /\ ~call.cache.has_state_changed
    /\ ~call.saved
    /\ call.out.ret = "token"

\* C11 as stated: whenever the exchange gave a result without "error",
\* complete_log_in returns the id_token_claims it has just stored, whatever
\* validators are configured.
C11_Original ==
    ExchangeSucceeded =>
        call.out = RetClaims(call.lib.result.id_token_claims)

\* C12: calling a Validator raises nothing if is_valid is true; if is_valid
\* is false it returns false with on_error None, raises the instance given
\* as on_error, or raises the class given as on_error, instantiated with
\* the claims; what it returns is the boolean of is_valid.
C12_ValidatorCall ==
    call.op = "__call__" =>
        LET v == validators[1] IN
        /\ Has(call.out, "ret") => call.out.bool = call.is_valid
        /\ call.is_valid => Has(call.out, "ret")
        /\ (~call.is_valid /\ v.on_error = "None") =>
              Has(call.out, "ret") /\ ~call.out.bool
        /\ (~call.is_valid /\ v.on_error = "instance") =>
              call.out = [raise |-> "on_error"]
        /\ (~call.is_valid /\ v.on_error = "class") =>
              call.out = [raise |-> "on_error", args |-> call.id_token_claims]

\* C12 happens: a validator given an exception class rejected the claims
\* and raised the class, instantiated with them
C12_Witness ==
    /\ call.op = "__call__"
    /\ validators[1].on_error = "class"
    /\ ~call.is_valid
    /\ Has(call.out, "raise")
    /\ call.out.args = call.id_token_claims

\* C13: _get_user yields the claims only if every validator in effect
\* returns true; the validators are called in list order up to the first
\* that does not, so a validator after one that returned false is not
\* called and the error it was given is not raised.
C13_OrderedShortCircuit ==
    (call.op = "get_user" /\ Has(session, _USER)) =>
        LET vs == InEffect(call.validators, validators)
            rej == Rejecting(vs, session[_USER], now)
        IN /\ call.out = RetClaims(session[_USER]) => rej = {}
           /\ call.invoked = IF rej = {} THEN Len(vs) ELSE Least(rej)
           /\ (rej # {} /\ ~FirstRejectingRaises(vs, session[_USER], now)) =>
                 call.out = RetNone

\* C13 happens: the first validator returned false, the second, which
\* would have raised its error, was not called, and get_user returned None
C13_Witness ==
    /\ call.op = "get_user"
    /\ Has(session, _USER)
    /\ Rejecting(InEffect(call.validators, validators), session[_USER], now)
          = {1, 2}
    /\ InEffect(call.validators, validators)[2].on_error # "None"
    /\ call.invoked = 1
    /\ call.out = RetNone

\* complete_log_in returned a dict with "error"
ReturnedError ==
    /\ call.op = "complete_log_in"
    /\ Has(call.out, "ret")
    /\ call.out.ret = "dict"

\* C14 as stated: a complete_log_in that returns an error, be it for the
\* ValueError it caught or for a library result with "error", leaves the
\* user claims, the token cache and the auth flow of the session exactly
\* as they were before the call.
C14_Original ==
    [][ReturnedError' => session' = session]_vars

\* the keys of a flow in which the library keeps notes of its own
Bookkeeping == {"claims_challenge", "latest_attempt_at"}

\* a flow without the library's notes: what log_in stored of it
Started(flow) == [k \in DOMAIN flow \ Bookkeeping |-> flow[k]]

\* C14: a complete_log_in that returns an error, be it for the ValueError
\* it caught or for a library result with "error", leaves the user claims
\* and the token cache of the session exactly as they were, and the auth
\* flow in the session if there was one, with all that log_in stored in it
\* (the state and the device_code among it); the one thing that changes
\* is the library's own notes in the flow it was handed.
C14_FailedLoginKeepsClaimsCacheAndFlow ==
    [][ReturnedError' =>
          /\ Entry(session', _USER) = Entry(session, _USER)
          /\ Entry(session', _TOKEN_CACHE) = Entry(session, _TOKEN_CACHE)
          /\ DOMAIN session' = DOMAIN session
          /\ Started(StoredFlow(session')) = Started(StoredFlow(session))
          /\ Has(session, _AUTH_FLOW) =>
                session'[_AUTH_FLOW] = call'.lib.flow]_vars

\* C14 happens: complete_log_in returned an error in a session that holds
\* the claims and the cache of an earlier login and the flow of a new one,
\* in which the library has left a note of the failed exchange
C14_Witness ==
    /\ ReturnedError
    /\ Has(call.out.dict, "error")
    /\ Has(session, _USER)
    /\ Has(session, _TOKEN_CACHE)
    /\ Has(session, _AUTH_FLOW)
    /\ \/ Has(session[_AUTH_FLOW], "latest_attempt_at")
       \/ /\ Has(session[_AUTH_FLOW], "state")
          /\ ~Has(session[_AUTH_FLOW], "claims_challenge")

\* C15: when the exchange succeeds and a configured validator rejects the
\* new claims, complete_log_in returning None or raising the validator's
\* error, the claims are in the user entry all the same, the cache is
\* saved and the flow is gone.
C15_CommitsBeforeValidating ==
    (ExchangeSucceeded
     /\ call.out # RetClaims(call.lib.result.id_token_claims)) =>
        /\ call.out = RetNone \/ Has(call.out, "raise")
        /\ Entry(session, _USER) = <<call.lib.result.id_token_claims>>
        /\ Entry(session, _TOKEN_CACHE) = <<Serialize(call.cache)>>
        /\ Entry(session, _AUTH_FLOW) = <<>>

\* C15 happens: the exchange succeeded and the configured validator raised
\* its error on the new claims
C15_Witness ==
    /\ ExchangeSucceeded
    /\ Has(call.out, "raise")
    /\ call.out.raise = "on_error"
    /\ Has(session, _USER)

\* the auth_response that answers the flow: its state with a code for an
\* auth-code flow, None for a device-code flow
Answering(flow) ==
    IF Has(flow, "state") THEN <<[state |-> flow.state, code |-> "c"]>>
    ELSE <<>>

\* the sessions a complete_log_in(auth_response) can leave from session s
\* at time t when its exchange succeeds
AfterSuccessfulLogIn(s, auth_response, configured, t) ==
    {CompleteLogIn(s, auth_response, x,
                   CacheAdd(_load_cache(s),
                            x.result.id_token_claims.preferred_username,
                            x.account),
                   configured, t).session :
        x \in {y \in Exchange(s, auth_response, t) : Outcome(y) = "ok"}}

\* C16: log_out leaves the auth-flow entry of the session as it was; with a
\* flow stored by log_in before it, a complete_log_in after it can still
\* succeed, and then ends with user claims in the session.
C16_LogOutKeepsFlow ==
    [][call'.op = "log_out" =>
          /\ Entry(session', _AUTH_FLOW) = Entry(session, _AUTH_FLOW)
          /\ Has(session, _AUTH_FLOW) =>
                LET after == AfterSuccessfulLogIn(
                                 session', Answering(session[_AUTH_FLOW]),
                                 validators, now)
                IN /\ after # {}
                   /\ \A s \in after : Has(s, _USER)]_vars

\* C16 happens: a user who had logged in started a new flow and logged
\* out; the flow is in the session after the log_out
C16_Witness ==
    /\ call.op = "log_out"
    /\ history = "logged_out"
    /\ Has(session, _AUTH_FLOW)
    /\ Has(session[_AUTH_FLOW], "state")

\* what evaluating the list vs on the claims of session s at time t comes
\* to: "claims" if all accept, "raise" if the first to reject was given an
\* on_error, "none" if it was not or there are no claims
Evaluating(vs, s, t) ==
    IF ~Has(s, _USER) THEN "none"
    ELSE IF Rejecting(vs, s[_USER], t) = {} THEN "claims"
    ELSE IF FirstRejectingRaises(vs, s[_USER], t) THEN "raise"
    ELSE "none"

\* what a call gave back, in the same words
Gave(out) ==
    IF Has(out, "raise") THEN "raise"
    ELSE IF out.ret = "None" THEN "none"
    ELSE "claims"

\* the per-call list if it is a non-empty list, the configured one if not
Replacing(per_call) ==
    IF per_call = <<>> THEN validators
    ELSE IF Len(per_call[1]) = 0 THEN validators
    ELSE per_call[1]

\* C17: get_user and get_token evaluate the validators of the call alone
\* when that list is not empty, and the configured validators when it is
\* None or empty; complete_log_in evaluates the configured validators.
C17_PerCallValidatorsReplace ==
    /\ call.op = "get_user" =>
          Gave(call.out) = Evaluating(Replacing(call.validators), session, now)
    /\ call.op = "get_token" =>
          LET e == Evaluating(Replacing(call.validators), session, now) IN
          /\ call.loaded <=> e = "claims"
          /\ ~call.loaded => Gave(call.out) = e
    /\ ExchangeSucceeded =>
          Gave(call.out) = Evaluating(validators, session, now)

\* C17 happens: get_user, given a list of its own, returned the claims
\* that the configured validators reject
C17_Witness ==
    /\ call.op = "get_user"
    /\ call.validators # <<>>
    /\ Len(call.validators[1]) > 0
    /\ Has(session, _USER)
    /\ call.out = RetClaims(session[_USER])
    /\ Rejecting(validators, session[_USER], now) # {}

\* a LifespanValidator with seconds, and no on_error, is the one validator
\* configured
LifespanConfigured ==
    /\ Len(validators) = 1
    /\ validators[1].type = "LifespanValidator"
    /\ validators[1].seconds # <<>>
    /\ validators[1].on_error = "None"

\* the session has ended: the claims are in it, and now is at or past
\* iat + seconds + skew of the configured validator
SessionExpired ==
    /\ LifespanConfigured
    /\ Has(session, _USER)
    /\ now >= session[_USER].iat + validators[1].seconds[1]
                 + (IF validators[1].skew = <<>> THEN DefaultSkew
                    ELSE validators[1].skew[1])

\* the call that ran last was a get_user or a get_token
AskedForUser == call.op \in {"get_user", "get_token"}

\* ... and it was not given a list of validators of its own
WithoutOwnValidators ==
    \/ call.validators = <<>>
    \/ Len(call.validators[1]) = 0

\* C18 as stated: once the session has ended, so that get_user returns
\* None, every later get_user and get_token returns None until a
\* complete_log_in succeeds.
C18_Original ==
    [][(SessionExpired /\ AskedForUser') => call'.out = RetNone]_vars

\* C18, amended: with a LifespanValidator with seconds and without on_error
\* as the only configured validator, and a clock that never goes backwards:
\* once the session has ended, every later get_user and get_token that is
\* given no validators of its own returns None, until a complete_log_in
\* succeeds with newer claims; the expired claims and a token cache stay in
\* the session until log_out or that complete_log_in.
C18_ExpiryIsPermanent ==
    [][(LifespanConfigured /\ (SessionExpired \/ ~Has(session, _USER))) =>
          /\ (AskedForUser' /\ WithoutOwnValidators') => call'.out = RetNone
          /\ \/ SessionExpired'
             \/ ~Has(session', _USER)
             \/ /\ ExchangeSucceeded'
                /\ Has(session, _USER) =>
                      session'[_USER].iat >= session[_USER].iat
          /\ (SessionExpired /\ ~ExchangeSucceeded' /\ call'.op # "log_out") =>
                /\ Entry(session', _USER) = Entry(session, _USER)
                /\ Has(session', _TOKEN_CACHE)]_vars

\* C18 happens: after the session had ended, get_token, given no validators
\* of its own, returned None although the session holds the claims and a
\* cache with an account
C18_Witness ==
    /\ SessionExpired
    /\ call.op = "get_token"
    /\ WithoutOwnValidators
    /\ call.out = RetNone
    /\ ~call.loaded
    /\ Has(session, _TOKEN_CACHE)
    /\ Len(session[_TOKEN_CACHE]) > 1
    /\ now > session[_USER].iat + validators[1].seconds[1] + DefaultSkew

\* C19 as stated: with seconds left None, is_valid(claims) is true exactly
\* while now is before the exp of the claims, and false from exp on.
C19_Original ==
    (call.op = "__call__" /\ validators[1].seconds = <<>>) =>
        (call.is_valid <=> now < call.id_token_claims.exp)

\* C19, amended: with seconds left None, is_valid(claims) is true exactly
\* while now is before exp + skew, skew being 210 when not given, and false
\* from exp + skew on, whatever the iat of the claims.
C19_LifespanWithoutSeconds ==
    (call.op = "__call__" /\ validators[1].seconds = <<>>) =>
        LET v == validators[1]
            c == call.id_token_claims
            skew == IF v.skew = <<>> THEN DefaultSkew ELSE v.skew[1]
        IN /\ call.is_valid <=> now < c.exp + skew
           /\ \A i \in 0 .. MaxIat + DefaultSkew :
                 IsValid(v, [c EXCEPT !.iat = i], now) = call.is_valid

\* C19 happens: a validator without seconds and with the default skew
\* accepted claims whose exp has passed
C19_Witness ==
    /\ call.op = "__call__"
    /\ validators[1].seconds = <<>>
    /\ validators[1].skew = <<>>
    /\ now > call.id_token_claims.exp
    /\ call.is_valid

====
